---- MODULE Spec2Model ----
(***************************************************************************)
(* Model of src/Montecarlo/montecarlo.py: the classes Die, Game, Analyzer. *)
(*                                                                         *)
(* A pandas DataFrame is modelled by its contents:                         *)
(*   - a Die's _df is a sequence of rows [face, weight] (index = face);    *)
(*   - a Game's _results is [ncols, rows]: the number of columns and the   *)
(*     sequence of rows, each a sequence of ncols faces (a frame of zero   *)
(*     rows still has its columns).                                        *)
(* Faces are integers; a float weight with an integral value is modelled   *)
(* by that integer (1.0 by 1).  Rows, dice and faces are numbered from 1   *)
(* in sequences; the labels the code produces (roll 0, die_0) are kept     *)
(* 0-based where they appear in a result.                                  *)
(* A call that raises is modelled by the name of the exception.            *)
(***************************************************************************)
EXTENDS Integers, Sequences, FiniteSets, TLC

VARIABLES dice,       \* the Die objects that exist: a sequence of their _df
          game,       \* Game._dice: a sequence of references into dice
          results,    \* Game._results
          last_play,  \* history: the arguments and draws of the last play that returned
          ret         \* the last call: what was called, with what, and its outcome

vars == <<dice, game, results, last_play, ret>>

(* ------------------------------ bounds -------------------------------- *)
MaxRolls == 2
MaxDice == 2
MaxCells == 4
MaxFaces == 2

FaceValues == {1, 2, 3}

(* ------------------------------ helpers ------------------------------- *)
Range(s) == {s[k] : k \in DOMAIN s}

SeqsUpTo(S, n) == UNION {[1..k -> S] : k \in 0..n}

(* ------------------------------- Die ---------------------------------- *)
\* a slip: the faces are not checked to be distinct
Die_init_unchecked_faces(faces) ==
    IF faces.type # "ndarray"
    THEN [raised |-> "TypeError", df |-> <<>>]
    ELSE [raised |-> "none",
          df |-> [k \in 1..Len(faces.elems) |->
                     [face |-> faces.elems[k], weight |-> 1]]]

\* Die.__init__(faces): faces is [type, elems], the python type of the argument
\* and its elements
Die_init(faces) ==
    IF faces.type # "ndarray"
    THEN [raised |-> "TypeError", df |-> <<>>]
    ELSE IF Len(faces.elems) # Cardinality(Range(faces.elems))
    THEN [raised |-> "ValueError", df |-> <<>>]
    ELSE [raised |-> "none",
          df |-> [k \in 1..Len(faces.elems) |->
                     [face |-> faces.elems[k], weight |-> 1]]]

\* face in self._df.index
InIndex(df, face) == \E k \in DOMAIN df : df[k].face = face

\* isinstance(weight, (int, float))
IsNumeric(weight) == weight.type \in {"int", "float"}

\* self._df.loc[face, 'weight'] = weight
SetLoc(df, face, weight) ==
    [k \in DOMAIN df |->
        IF df[k].face = face THEN [df[k] EXCEPT !.weight = weight.val] ELSE df[k]]

\* a slip: the cell is written before the arguments are validated
change_weight_write_first(df, face, weight) ==
    IF ~InIndex(df, face)
    THEN [raised |-> "IndexError", df |-> df]
    ELSE IF ~IsNumeric(weight)
    THEN [raised |-> "TypeError", df |-> SetLoc(df, face, weight)]
    ELSE [raised |-> "none", df |-> SetLoc(df, face, weight)]

\* Die.change_weight(face, weight)
change_weight(df, face, weight) ==
    IF ~InIndex(df, face)
    THEN [raised |-> "IndexError", df |-> df]
    ELSE IF ~IsNumeric(weight)
    THEN [raised |-> "TypeError", df |-> df]
    ELSE [raised |-> "none", df |-> SetLoc(df, face, weight)]

RECURSIVE SumWeights(_)
SumWeights(df) ==
    IF df = <<>> THEN 0 ELSE Head(df).weight + SumWeights(Tail(df))

\* a slip: a weight of zero is refused like a negative one
weights_invalid_nonpositive(df) ==
    \/ \E k \in DOMAIN df : df[k].weight <= 0
    \/ SumWeights(df) = 0

\* DataFrame.sample(weights='weight') refuses a negative weight and weights
\* that sum to zero
weights_invalid(df) ==
    \/ \E k \in DOMAIN df : df[k].weight < 0
    \/ SumWeights(df) = 0

\* Die.roll(num_rolls): the exception, or the set of lists it can return
roll(df, num_rolls) ==
    IF weights_invalid(df)
    THEN [raised |-> "ValueError", outcomes |-> {}]
    ELSE [raised |-> "none",
          outcomes |-> [1..num_rolls ->
                          {df[k].face : k \in {j \in DOMAIN df : df[j].weight > 0}}]]

\* Die.show(): a copy of _df
Die_show(df) == df

(* ------------------------------- Game --------------------------------- *)
\* pd.DataFrame(): no rows, no columns
EmptyFrame == [ncols |-> 0, rows |-> <<>>]

\* pd.DataFrame(results): results maps die_i to the list of its draws; an empty
\* dict gives the frame without rows and columns
DataFrame(draws) ==
    IF Len(draws) = 0
    THEN EmptyFrame
    ELSE [ncols |-> Len(draws),
          rows  |-> [r \in 1..Len(draws[1]) |->
                        [i \in 1..Len(draws) |-> draws[i][r]]]]

\* a slip: the new rows are appended to the rows of the previous play
play_results_appended(old, draws) ==
    IF old.ncols = DataFrame(draws).ncols
    THEN [ncols |-> old.ncols, rows |-> old.rows \o DataFrame(draws).rows]
    ELSE DataFrame(draws)

\* Game.play: self._results = pd.DataFrame(results)
play_results(old, draws) == DataFrame(draws)

\* a slip: the outcomes are read column by column under row-by-row labels
stack_column_major(T) ==
    [k \in 1..(Len(T.rows) * T.ncols) |->
        [roll    |-> (k - 1) \div T.ncols,
         die     |-> (k - 1) % T.ncols,
         outcome |-> T.rows[((k - 1) % Len(T.rows)) + 1][((k - 1) \div Len(T.rows)) + 1]]]

\* self._results.stack().reset_index().rename(columns={0: 'outcome'}):
\* one row per (roll, column), rolls outermost
stack(T) ==
    [k \in 1..(Len(T.rows) * T.ncols) |->
        [roll    |-> (k - 1) \div T.ncols,
         die     |-> (k - 1) % T.ncols,
         outcome |-> T.rows[((k - 1) \div T.ncols) + 1][((k - 1) % T.ncols) + 1]]]

\* Game.show(form)
Game_show(T, form) ==
    IF form \notin {"wide", "narrow"}
    THEN [raised |-> "ValueError", value |-> "None"]
    ELSE IF form = "narrow"
    THEN [raised |-> "none", value |-> stack(T)]
    ELSE [raised |-> "none", value |-> T]

(* ----------------------------- Analyzer ------------------------------- *)
\* row.nunique()
nunique(row) == Cardinality(Range(row))

\* DataFrame.apply(f, axis=1) on a frame with no rows or no columns calls f on
\* no row: the result is an empty float64 Series
apply_is_empty(T) == T.ncols = 0 \/ Len(T.rows) = 0

\* a slip: a row counts when its faces are pairwise different
jackpot_all_different(T) ==
    IF apply_is_empty(T)
    THEN [raised |-> "none", value |-> 0, dtype |-> "float64"]
    ELSE [raised |-> "none",
          value  |-> Cardinality({r \in DOMAIN T.rows : nunique(T.rows[r]) = T.ncols}),
          dtype  |-> "int64"]

\* Analyzer.jackpot(): .apply(lambda row: row.nunique() == 1, axis=1).sum()
jackpot(T) ==
    IF apply_is_empty(T)
    THEN [raised |-> "none", value |-> 0, dtype |-> "float64"]
    ELSE [raised |-> "none",
          value  |-> Cardinality({r \in DOMAIN T.rows : nunique(T.rows[r]) = 1}),
          dtype  |-> "int64"]

\* self._game._results.index: RangeIndex(number of rows)
RangeIndex(n) == [k \in 1..n |-> k - 1]

\* self._game._results.values.flatten(): the cells, row after row
RECURSIVE flatten(_)
flatten(rows) == IF rows = <<>> THEN <<>> ELSE Head(rows) \o flatten(Tail(rows))

\* pd.crosstab(index, columns): the two arrays become the columns of one frame,
\* which needs them to be of one length; the table then counts, for each pair
\* (index value, columns value), the positions that hold it
crosstab(index, columns) ==
    IF Len(index) # Len(columns)
    THEN [raised |-> "ValueError", value |-> "None"]
    ELSE [raised |-> "none",
          value  |-> [index   |-> Range(index),
                      columns |-> Range(columns),
                      cell    |-> [r \in Range(index) |-> [f \in Range(columns) |->
                                     Cardinality({k \in DOMAIN index :
                                                    index[k] = r /\ columns[k] = f})]]]]

\* Analyzer.face_counts_per_roll()
face_counts_per_roll(T) == crosstab(RangeIndex(Len(T.rows)), flatten(T.rows))

RECURSIVE Insert(_, _)
Insert(x, s) ==
    IF s = <<>> THEN <<x>>
    ELSE IF x <= Head(s) THEN <<x>> \o s
    ELSE <<Head(s)>> \o Insert(x, Tail(s))

\* sorted(row)
RECURSIVE sorted(_)
sorted(s) == IF s = <<>> THEN <<>> ELSE Insert(Head(s), sorted(Tail(s)))

\* Series.value_counts().to_frame('counts'): one row per distinct value with the
\* number of its occurrences (the order of the rows is not modelled)
value_counts(s) ==
    {[key |-> v, counts |-> Cardinality({k \in DOMAIN s : s[k] = v})] : v \in Range(s)}

\* Analyzer.combo_count()
combo_count(T) ==
    IF apply_is_empty(T)
    THEN [raised |-> "none", value |-> {}]
    ELSE [raised |-> "none",
          value  |-> value_counts([r \in DOMAIN T.rows |-> sorted(T.rows[r])])]

\* Analyzer.permutation_count()
permutation_count(T) ==
    IF apply_is_empty(T)
    THEN [raised |-> "none", value |-> {}]
    ELSE [raised |-> "none",
          value  |-> value_counts([r \in DOMAIN T.rows |-> T.rows[r]])]

(* ------------------------ inputs of the calls -------------------------- *)
\* the argument of Die(...): a numpy array or a python list, of up to MaxFaces
\* elements, which may repeat
FacesInputs == [type : {"ndarray", "list"}, elems : SeqsUpTo(FaceValues, MaxFaces)]

\* the weight argument of change_weight, with its python type
WeightInputs ==
    [type : {"int"}, val : {-1, 0, 2}] \cup [type : {"float"}, val : {1}]
        \cup [type : {"str", "NoneType"}, val : {0}]

\* the weights a game's dice are given: a face can be switched off and on
GameWeightInputs == [type : {"int"}, val : {0, 1}]

\* the arrays the dice of a game are made from
DieArrays == << <<1, 2>>, <<2, 3>> >>

Forms == {"wide", "narrow", "tall"}

\* last_play before any play; prior_rows is the number of rows _results held
\* when the play was called
NoPlay == [played |-> FALSE, num_rolls |-> 0, draws |-> <<>>, prior_rows |-> 0]

Ret(op, arg, raised, value, before) ==
    [op |-> op, arg |-> arg, raised |-> raised, value |-> value, before |-> before]

(* ------------------------------ actions ------------------------------- *)
\* die = Die(faces)
DieCreate(faces) ==
    LET out == Die_init(faces) IN
    /\ dice' = IF out.raised = "none" THEN <<out.df>> ELSE dice
    /\ ret' = Ret("Die", faces, out.raised, "None", "None")
    /\ UNCHANGED <<game, results, last_play>>

\* dice[i].change_weight(face, weight)
ChangeWeight(i, face, weight) ==
    LET out == change_weight(dice[i], face, weight) IN
    /\ dice' = [dice EXCEPT ![i] = out.df]
    /\ ret' = Ret("change_weight", [die |-> i, face |-> face, weight |-> weight],
                  out.raised, "None", dice[i])
    /\ UNCHANGED <<game, results, last_play>>

\* dice[i].roll(num_rolls)
Roll(i, num_rolls) ==
    LET out == roll(dice[i], num_rolls) IN
    /\ IF out.raised # "none"
       THEN ret' = Ret("roll", [die |-> i, num_rolls |-> num_rolls],
                       out.raised, "None", dice[i])
       ELSE \E o \in out.outcomes :
               ret' = Ret("roll", [die |-> i, num_rolls |-> num_rolls],
                          "none", o, dice[i])
    /\ UNCHANGED <<dice, game, results, last_play>>

\* dice[i].show(); the call remembers whether it follows the die's construction
DieShow(i) ==
    /\ ret' = Ret("Die.show",
                  [die |-> i,
                   fresh |-> (ret.op = "Die" /\ ret.raised = "none"),
                   faces |-> IF ret.op = "Die" THEN ret.arg.elems ELSE <<>>],
                  "none", Die_show(dice[i]), dice[i])
    /\ UNCHANGED <<dice, game, results, last_play>>

\* game.play(num_rolls): every die of the list, in order, is rolled num_rolls
\* times, one roll() per draw; the frame replaces _results when all draws are made
Play(num_rolls) ==
    LET d == Len(game) IN
    IF num_rolls > 0 /\ \E i \in 1..d : roll(dice[game[i]], 1).raised # "none"
    THEN /\ ret' = Ret("play", num_rolls, "ValueError", "None", "None")
         /\ UNCHANGED <<dice, game, results, last_play>>
    ELSE \E draws \in [1..d -> [1..num_rolls -> FaceValues]] :
            /\ \A i \in 1..d : \A r \in 1..num_rolls :
                  \E o \in roll(dice[game[i]], 1).outcomes : draws[i][r] = o[1]
            /\ results' = play_results(results, draws)
            /\ last_play' = [played |-> TRUE, num_rolls |-> num_rolls, draws |-> draws,
                             prior_rows |-> Len(results.rows)]
            /\ ret' = Ret("play", num_rolls, "none", "None", "None")
            /\ UNCHANGED <<dice, game>>

\* game.show(form)
Show(form) ==
    LET out == Game_show(results, form) IN
    /\ ret' = Ret("show", form, out.raised, out.value, "None")
    /\ UNCHANGED <<dice, game, results, last_play>>

\* analyzer.jackpot()
Jackpot ==
    LET out == jackpot(results) IN
    /\ ret' = Ret("jackpot", out.dtype, out.raised, out.value, "None")
    /\ UNCHANGED <<dice, game, results, last_play>>

\* analyzer.face_counts_per_roll()
FaceCountsPerRoll ==
    LET out == face_counts_per_roll(results) IN
    /\ ret' = Ret("face_counts_per_roll", "None", out.raised, out.value, "None")
    /\ UNCHANGED <<dice, game, results, last_play>>

\* analyzer.combo_count()
ComboCount ==
    LET out == combo_count(results) IN
    /\ ret' = Ret("combo_count", "None", out.raised, out.value, "None")
    /\ UNCHANGED <<dice, game, results, last_play>>

\* analyzer.permutation_count()
PermutationCount ==
    LET out == permutation_count(results) IN
    /\ ret' = Ret("permutation_count", "None", out.raised, out.value, "None")
    /\ UNCHANGED <<dice, game, results, last_play>>

(* --------------------- a game and its analyzer ------------------------ *)
\* the dice are constructed, then Game(list) and Analyzer(game)
Init ==
    /\ dice = [k \in 1..Len(DieArrays) |->
                 Die_init([type |-> "ndarray", elems |-> DieArrays[k]]).df]
    /\ game \in SeqsUpTo(1..Len(DieArrays), MaxDice)
    /\ results = EmptyFrame
    /\ last_play = NoPlay
    /\ ret = Ret("Game", "None", "none", "None", "None")

Next ==
    \/ \E n \in 0..MaxRolls : n * Len(game) <= MaxCells /\ Play(n)
    \/ \E form \in Forms : Show(form)
    \/ Jackpot
    \/ FaceCountsPerRoll
    \/ ComboCount
    \/ PermutationCount
    \/ \E i \in DOMAIN dice : \E k \in DOMAIN dice[i] : \E w \in GameWeightInputs :
          ChangeWeight(i, dice[i][k].face, w)

Spec == Init /\ [][Next]_vars

(* ------------------------------ one die ------------------------------- *)
InitDie ==
    /\ dice = <<>>
    /\ game = <<>>
    /\ results = EmptyFrame
    /\ last_play = NoPlay
    /\ ret = Ret("none", "None", "none", "None", "None")

NextDie ==
    \/ \E faces \in FacesInputs : DieCreate(faces)
    \/ \E i \in DOMAIN dice : \E face \in FaceValues : \E w \in WeightInputs :
          ChangeWeight(i, face, w)
    \/ \E i \in DOMAIN dice : \E n \in 0..MaxRolls : Roll(i, n)
    \/ \E i \in DOMAIN dice : DieShow(i)

SpecDie == InitDie /\ [][NextDie]_vars

(* ------------------------------ claims -------------------------------- *)
AllSame(row) == \A i, j \in DOMAIN row : row[i] = row[j]

HasDuplicate(s) == \E i, j \in DOMAIN s : i # j /\ s[i] = s[j]

FacesOf(df) == {df[k].face : k \in DOMAIN df}

RECURSIVE SumCounts(_)
SumCounts(S) ==
    IF S = {} THEN 0
    ELSE LET x == CHOOSE y \in S : TRUE IN x.counts + SumCounts(S \ {x})

RECURSIVE SumOver(_, _)
SumOver(f, S) ==
    IF S = {} THEN 0
    ELSE LET x == CHOOSE y \in S : TRUE IN f[x] + SumOver(f, S \ {x})

\* C1: after a play(num_rolls) that returned, the results table has exactly
\* num_rolls rows and exactly len(dice) columns, and column i holds the draws
\* of the i-th die of the list -- for every list of dice, the empty one too.
C1_PlayShape ==
    (ret.op = "play" /\ ret.raised = "none") =>
        /\ Len(results.rows) = ret.arg
        /\ results.ncols = Len(game)
        /\ \A r \in 1..ret.arg : \A i \in 1..Len(game) :
              results.rows[r][i] = last_play.draws[i][r]

\* C2: jackpot() is the number of rows of the results table in which every die
\* shows the same face; with one die it is num_rolls of the last play, with
\* several dice it lies between 0 and num_rolls.
C2_Jackpot ==
    ret.op = "jackpot" =>
        /\ ret.raised = "none"
        /\ ret.value = Cardinality({r \in DOMAIN results.rows : AllSame(results.rows[r])})
        /\ (Len(game) = 1 /\ last_play.played) => ret.value = last_play.num_rolls
        /\ Len(game) >= 2 => (ret.value >= 0 /\ ret.value <= last_play.num_rolls)

\* C2 happens: two dice, two rolls, one of them a jackpot and the other not
C2_Witness ==
    /\ ret.op = "jackpot"
    /\ Len(game) = 2
    /\ last_play.played /\ last_play.num_rolls = 2
    /\ ret.value = 1

IntegerTypes == {"int", "int64"}

\* C3: on a game never played, jackpot() returns the integer 0 and the three
\* tables of face_counts_per_roll(), combo_count() and permutation_count() are
\* empty, none of the four raising.
C3_NeverPlayed ==
    ~last_play.played =>
        /\ ret.op = "jackpot" =>
              (ret.raised = "none" /\ ret.value = 0 /\ ret.arg \in IntegerTypes)
        /\ ret.op = "face_counts_per_roll" =>
              (ret.raised = "none" /\ ret.value.index = {} /\ ret.value.columns = {})
        /\ ret.op \in {"combo_count", "permutation_count"} =>
              (ret.raised = "none" /\ ret.value = {})

\* C4: on a played game, whatever the number of dice, face_counts_per_roll()
\* returns a table with one row per roll and one column per face that occurs
\* in the results; the cell (r, f) is the number of dice showing f on roll r,
\* so every row sums to len(dice).
C4_FaceCounts ==
    (ret.op = "face_counts_per_roll" /\ last_play.played) =>
        /\ ret.raised = "none"
        /\ ret.value.index = {r - 1 : r \in DOMAIN results.rows}
        /\ ret.value.columns = UNION {Range(results.rows[r]) : r \in DOMAIN results.rows}
        /\ \A r \in DOMAIN results.rows :
              /\ \A f \in ret.value.columns :
                    ret.value.cell[r - 1][f] =
                       Cardinality({i \in 1..results.ncols : results.rows[r][i] = f})
              /\ SumOver(ret.value.cell[r - 1], ret.value.columns) = Len(game)

\* C5: on a played game combo_count() groups the rolls by the sorted tuple of
\* the row and permutation_count() by the tuple as rolled; the counts of each
\* sum to num_rolls of the last play, and there are at least as many
\* permutations as combinations.
C5_Counts ==
    (ret.op \in {"combo_count", "permutation_count"} /\ last_play.played) =>
        /\ ret.raised = "none"
        /\ {x.key : x \in ret.value} =
              {IF ret.op = "combo_count" THEN sorted(results.rows[r]) ELSE results.rows[r] :
                  r \in DOMAIN results.rows}
        /\ \A x \in ret.value :
              x.counts = Cardinality({r \in DOMAIN results.rows :
                            x.key = IF ret.op = "combo_count"
                                    THEN sorted(results.rows[r]) ELSE results.rows[r]})
        /\ SumCounts(ret.value) = last_play.num_rolls
        /\ Cardinality(permutation_count(results).value)
              >= Cardinality(combo_count(results).value)

\* C6: show('narrow') holds the values of show('wide') reshaped: one row per
\* (roll, die) pair, num_rolls * len(dice) rows in all, and the row of
\* (roll r, die d) carries the wide table's cell at row r, column d.
C6_NarrowIsWideReshaped ==
    (ret.op = "show" /\ ret.arg = "narrow") =>
        LET wide == Game_show(results, "wide").value IN
        /\ ret.raised = "none"
        /\ Len(ret.value) = Len(wide.rows) * wide.ncols
        /\ last_play.played => Len(ret.value) = last_play.num_rolls * Len(game)
        /\ \A r \in DOMAIN wide.rows : \A i \in 1..wide.ncols :
              /\ Cardinality({k \in DOMAIN ret.value :
                    ret.value[k].roll = r - 1 /\ ret.value[k].die = i - 1}) = 1
              /\ \A k \in DOMAIN ret.value :
                    (ret.value[k].roll = r - 1 /\ ret.value[k].die = i - 1)
                        => ret.value[k].outcome = wide.rows[r][i]

\* C6 happens: a narrow table of two dice and two rolls whose off-diagonal
\* cells differ
C6_Witness ==
    /\ ret.op = "show" /\ ret.arg = "narrow"
    /\ Len(game) = 2 /\ last_play.played /\ last_play.num_rolls = 2
    /\ Len(ret.value) = 4
    /\ results.rows[1][2] # results.rows[2][1]

\* the weights under which weighted sampling is defined: none negative, one
\* at least positive
SamplingDefined(df) ==
    /\ \A k \in DOMAIN df : df[k].weight >= 0
    /\ \E k \in DOMAIN df : df[k].weight > 0

\* C7 as stated: whatever weights successful change_weight calls have left,
\* roll(n) returns a list of exactly n faces of the die.
C7_RollAnyWeights ==
    ret.op = "roll" =>
        /\ ret.raised = "none"
        /\ Len(ret.value) = ret.arg.num_rolls
        /\ \A k \in DOMAIN ret.value : ret.value[k] \in FacesOf(ret.before)

\* C7 amended: when no weight of the die is negative and one at least is
\* positive, roll(n) returns a list of exactly n faces of the die, the empty
\* list for n = 0.
C7_RollValidWeights ==
    (ret.op = "roll" /\ SamplingDefined(ret.before)) =>
        /\ ret.raised = "none"
        /\ Len(ret.value) = ret.arg.num_rolls
        /\ \A k \in DOMAIN ret.value : ret.value[k] \in FacesOf(ret.before)
        /\ ret.arg.num_rolls = 0 => ret.value = <<>>

\* C7 happens: two rolls of a die one of whose weights was set to 0 and
\* another to 2
C7_Witness ==
    /\ ret.op = "roll" /\ ret.raised = "none"
    /\ ret.arg.num_rolls = 2 /\ Len(ret.value) = 2
    /\ \E j, k \in DOMAIN ret.before :
          ret.before[j].weight = 0 /\ ret.before[k].weight = 2

NonNumeric(weight) == weight.type \in {"str", "NoneType"}

\* C8 as stated: change_weight on an absent face always raises IndexError, with
\* a non-numeric weight it always raises TypeError, and in both cases the die's
\* weights are what they were.
C8_ChangeWeightErrors ==
    ret.op = "change_weight" =>
        /\ ret.arg.face \notin FacesOf(ret.before) => ret.raised = "IndexError"
        /\ NonNumeric(ret.arg.weight) => ret.raised = "TypeError"
        /\ (ret.arg.face \notin FacesOf(ret.before) \/ NonNumeric(ret.arg.weight))
              => dice[ret.arg.die] = ret.before

\* C8 amended: change_weight on an absent face always raises IndexError,
\* whatever the weight; on a face of the die with a non-numeric weight it
\* raises TypeError; in both cases the die's weights are what they were.
C8_ChangeWeightErrorsInOrder ==
    ret.op = "change_weight" =>
        /\ ret.arg.face \notin FacesOf(ret.before) => ret.raised = "IndexError"
        /\ (ret.arg.face \in FacesOf(ret.before) /\ NonNumeric(ret.arg.weight))
              => ret.raised = "TypeError"
        /\ (ret.arg.face \notin FacesOf(ret.before) \/ NonNumeric(ret.arg.weight))
              => dice[ret.arg.die] = ret.before

\* C8 happens: a non-numeric weight for a face of a die whose weights were
\* changed before
C8_Witness ==
    /\ ret.op = "change_weight" /\ ret.raised = "TypeError"
    /\ \E k \in DOMAIN ret.before : ret.before[k].weight = 2

\* C9: Die(faces) raises TypeError for every input that is no array and
\* ValueError for every array with a repeated face; for an array of distinct
\* faces it succeeds, and show() right after it gives every face the weight
\* 1.0, the faces being those of the input.
C9_Create ==
    /\ ret.op = "Die" =>
          /\ ret.arg.type # "ndarray" => ret.raised = "TypeError"
          /\ (ret.arg.type = "ndarray" /\ HasDuplicate(ret.arg.elems))
                => ret.raised = "ValueError"
          /\ (ret.arg.type = "ndarray" /\ ~HasDuplicate(ret.arg.elems))
                => (ret.raised = "none" /\ FacesOf(dice[1]) = Range(ret.arg.elems))
    /\ (ret.op = "Die.show" /\ ret.arg.fresh) =>
          /\ \A k \in DOMAIN ret.value : ret.value[k].weight = 1
          /\ FacesOf(ret.value) = Range(ret.arg.faces)
          /\ Len(ret.value) = Len(ret.arg.faces)

\* C9 happens: show() right after the construction of a die of two faces
C9_Witness ==
    /\ ret.op = "Die.show" /\ ret.arg.fresh
    /\ Len(ret.value) = 2

\* C10: the results table and every Analyzer output reflect the most recent
\* play alone: a play replaces the table (its rows are never added to those of
\* an earlier play), and show and the Analyzer methods return what the table of
\* the last play gives.
C10_LatestPlayOnly ==
    /\ ~last_play.played => results = EmptyFrame
    /\ last_play.played =>
          LET latest == DataFrame(last_play.draws) IN
          /\ results = latest
          /\ Len(results.rows) <= last_play.num_rolls
          /\ ret.op = "jackpot" => ret.value = jackpot(latest).value
          /\ ret.op = "face_counts_per_roll" =>
                (/\ ret.raised = face_counts_per_roll(latest).raised
                 /\ ret.value = face_counts_per_roll(latest).value)
          /\ ret.op = "combo_count" => ret.value = combo_count(latest).value
          /\ ret.op = "permutation_count" => ret.value = permutation_count(latest).value
          /\ (ret.op = "show" /\ ret.raised = "none")
                => ret.value = Game_show(latest, ret.arg).value

\* C10 happens: a play of one roll on a table that held two rows, then
\* combo_count() counting that one roll
C10_Witness ==
    /\ last_play.played /\ last_play.prior_rows = 2 /\ last_play.num_rolls = 1
    /\ Len(game) = 2
    /\ ret.op = "combo_count" /\ SumCounts(ret.value) = 1

====
